---------------------------- MODULE Spec2Model ----------------------------
(***************************************************************************)
(* Model of the wind-forecast agent: Agent.Run (the daily loop), the       *)
(* Open-Meteo client's Fetch with toForecastDays, the report builders and  *)
(* the Telegram dispatcher.                                                *)
(*                                                                         *)
(* Two versions of package agent are in the repository:                    *)
(*   "easterly"  src/internal/agent/agent.go  (E/W table + analysis line)  *)
(*   "wind"      src/unnamed/part_000         (wind/gust/N-E-S-W table)    *)
(* The variable `variant` says which one a behaviour runs.                 *)
(*                                                                         *)
(* Time is counted in ticks since midnight UTC of day 0.  Texts are        *)
(* sequences of pieces (records), wind angles and speeds are integers in   *)
(* tenths of a unit.                                                       *)
(***************************************************************************)
EXTENDS Integers, Sequences, FiniteSets, TLC

\* ------------------------------------------------------------------ bounds
\* Cycles a behaviour may start before the model stops exploring.
MaxCycles == 2
\* Clock resolution: ticks in one minute.
TicksPerMinute == 2
\* Days of clock readings the scheduling specification enumerates.
SchedDays == 2

\* ------------------------------------------------------- program constants
DefaultRunHour == 10
DefaultRunMinute == 0
HoursPerDay == 24
MinutesPerHour == 60
DefaultForecastDays == 15
StatusOK == 200
FullCircle == 360
HalfCircle == 180

TicksPerHour == MinutesPerHour * TicksPerMinute
TicksPerDay == HoursPerDay * TicksPerHour

\* -------------------------------------------------------------- variables
VARIABLES
    pc,          \* position of Run
    cancelledAt, \* "none", or the phase Run was in when ctx was cancelled
    cfg,         \* Agent.cfg
    variant,     \* which version of package agent runs
    env,         \* WIND_CHECK_HOUR / WIND_CHECK_MINUTE as the process sees them
    runHour, runMinute,
    now,         \* the clock
    next,        \* next trigger instant computed by the last cycle
    startTime,   \* clock when Run was called
    cycleStart,  \* clock when the current cycle passed the loop-top checks
    cycle,       \* number of cycles started
    forecast, fetchErr,
    report, analysis, prompt,
    summary, llmErr,
    calls,       \* external calls of the current cycle, in order
    result,      \* what Run returned
    payload,     \* decoded provider body handed to a normalizer
    rain         \* what rainResponse.toRainForecasts made of payload

vars == <<pc, cancelledAt, cfg, variant, env, runHour, runMinute, now, next,
          startTime, cycleStart, cycle, forecast, fetchErr, report, analysis,
          prompt, summary, llmErr, calls, result, payload, rain>>

\* ------------------------------------------------------------ strconv.Atoi
Digits == <<"0", "1", "2", "3", "4", "5", "6", "7", "8", "9">>

IsDigit(c) == \E i \in 1..10 : Digits[i] = c

DigitVal(c) == (CHOOSE i \in 1..10 : Digits[i] = c) - 1

RECURSIVE DigitsVal(_)
DigitsVal(s) ==
    IF s = <<>> THEN 0
    ELSE 10 * DigitsVal(SubSeq(s, 1, Len(s) - 1)) + DigitVal(s[Len(s)])

\* strconv.Atoi on a string given as its characters: an optional sign, then
\* one or more decimal digits.
Atoi(s) ==
    LET signed == Len(s) > 0 /\ s[1] \in {"+", "-"}
        body   == IF signed THEN Tail(s) ELSE s
        good   == Len(body) > 0 /\ \A i \in 1..Len(body) : IsDigit(body[i])
    IN  IF ~good THEN [ok |-> FALSE, v |-> 0]
        ELSE [ok |-> TRUE,
              v  |-> IF signed /\ s[1] = "-" THEN 0 - DigitsVal(body)
                     ELSE DigitsVal(body)]

\* A variant of ScheduleHour that also takes 24 as an hour.
ScheduleHourUpTo24(h) ==
    IF h # <<>> /\ Atoi(h).ok /\ Atoi(h).v >= 0 /\ Atoi(h).v <= HoursPerDay
    THEN Atoi(h).v ELSE DefaultRunHour

\* Run, lines 46-57: the schedule read from the environment.
ScheduleHour(h) ==
    IF h # <<>> /\ Atoi(h).ok /\ Atoi(h).v >= 0 /\ Atoi(h).v < HoursPerDay
    THEN Atoi(h).v ELSE DefaultRunHour

ScheduleMinute(m) ==
    IF m # <<>> /\ Atoi(m).ok /\ Atoi(m).v >= 0 /\ Atoi(m).v < MinutesPerHour
    THEN Atoi(m).v ELSE DefaultRunMinute

\* ------------------------------------------------------------------ clock
\* time.Date(now.Year(), now.Month(), now.Day(), h, m, 0, 0, time.UTC)
TimeDate(t, h, m) == (t - (t % TicksPerDay)) + h * TicksPerHour + m * TicksPerMinute

\* A variant of NextRun that keeps today's instant when it equals now.
NextRunNotBefore(t, h, m) ==
    LET nx == TimeDate(t, h, m)
    IN  IF t > nx THEN nx + TicksPerDay ELSE nx

\* Run, lines 123-127: today at runHour:runMinute, tomorrow when that is not
\* after now.
NextRun(t, h, m) ==
    LET nx == TimeDate(t, h, m)
    IN  IF ~(t < nx) THEN nx + TicksPerDay ELSE nx


\* ------------------------------------------------------ compass classifier
\* int(x) of Go on a float given in tenths: truncation toward zero.
TruncTenths(x10) == IF x10 >= 0 THEN x10 \div 10 ELSE 0 - ((0 - x10) \div 10)

\* Go's % on ints: the result has the sign of the dividend.
GoRem(a, n) == IF a >= 0 THEN a % n ELSE 0 - ((0 - a) % n)

\* deg = float64(int(deg+360) % 360), the angle in tenths of a degree, the
\* result in whole degrees.
normalizeDeg(deg10) == GoRem(TruncTenths(deg10 + 10 * FullCircle), FullCircle)

\* A variant of degToCompass that takes 0 degrees as East.
degToCompassFromZero(deg10) ==
    LET deg == normalizeDeg(deg10)
    IN  IF deg >= 0 /\ deg < HalfCircle THEN "E" ELSE "W"

\* agent.go: E on (0,180), W otherwise.
degToCompass(deg10) ==
    LET deg == normalizeDeg(deg10)
    IN  IF deg > 0 /\ deg < HalfCircle THEN "E" ELSE "W"

isEasterly(deg10) ==
    LET deg == normalizeDeg(deg10)
    IN  deg > 0 /\ deg < HalfCircle

\* A variant of degToCompassWind that rounds the angle to the nearest whole
\* degree instead of truncating it.
degToCompassWindRounded(deg10) ==
    LET deg == GoRem(TruncTenths(deg10 + 10 * FullCircle + 5), FullCircle)
    IN  IF deg >= 30 /\ deg < 150 THEN "E"
        ELSE IF deg >= 210 /\ deg < 330 THEN "W"
        ELSE IF deg >= 150 /\ deg < 210 THEN "S"
        ELSE "N"

\* part_000: N, E, S, W with wider E and W.
degToCompassWind(deg10) ==
    LET deg == normalizeDeg(deg10)
    IN  IF deg >= 30 /\ deg < 150 THEN "E"
        ELSE IF deg >= 210 /\ deg < 330 THEN "W"
        ELSE IF deg >= 150 /\ deg < 210 THEN "S"
        ELSE "N"

\* ------------------------------------------------------------------ dates
\* A date string "YYYY-MM-DD" is given as its three numbers; a string that
\* does not follow the layout is given as NotADate.
DateStr(y, m, d) == [y |-> y, m |-> m, d |-> d]

NotADate == DateStr(0, 0, 0)

IsLeap(y) == (y % 4 = 0 /\ y % 100 # 0) \/ y % 400 = 0

DaysIn(y, m) ==
    IF m = 2 THEN (IF IsLeap(y) THEN 29 ELSE 28)
    ELSE IF m \in {4, 6, 9, 11} THEN 30 ELSE 31

\* time.Parse("2006-01-02", s): fails on a month or a day out of range.
ParseDate(s) ==
    IF s.m \in 1..12 /\ s.d >= 1 /\ s.d <= DaysIn(s.y, s.m)
    THEN [ok |-> TRUE, date |-> <<s.y, s.m, s.d>>]
    ELSE [ok |-> FALSE, date |-> <<0, 0, 0>>]

\* Day of the week of a date, 0 = Sunday.
Weekday(date) ==
    LET t == <<0, 3, 2, 5, 0, 3, 5, 1, 4, 6, 2, 4>>
        y == IF date[2] < 3 THEN date[1] - 1 ELSE date[1]
    IN  (y + (y \div 4) - (y \div 100) + (y \div 400) + t[date[2]] + date[3]) % 7

\* Date.Format("Mon 02 Jan")
FormatDayMonth(date) == <<Weekday(date), date[3], date[2]>>

\* Date.Format("2006-01-02")
FormatISO(date) == <<date[1], date[2], date[3]>>

\* A variant of toForecastDaysFrom that keeps the records made before a date
\* that does not parse.
RECURSIVE toForecastDaysFromPartial(_, _, _)
toForecastDaysFromPartial(d, idx, out) ==
    IF idx > Len(d.Time) THEN [forecast |-> out, err |-> "nil"]
    ELSE LET p == ParseDate(d.Time[idx])
         IN  IF ~p.ok THEN [forecast |-> out, err |-> "parse date"]
             ELSE toForecastDaysFromPartial(d, idx + 1,
                      Append(out, [Date         |-> p.date,
                                   WindSpeedMax |-> d.WindSpeedMax[idx],
                                   WindGustMax  |-> d.WindGustMax[idx],
                                   WindDirMean  |-> d.WindDirMean[idx]]))

\* ---------------------------------------------------- weather.go: Fetch
RECURSIVE toForecastDaysFrom(_, _, _)
toForecastDaysFrom(d, idx, out) ==
    IF idx > Len(d.Time) THEN [forecast |-> out, err |-> "nil"]
    ELSE LET p == ParseDate(d.Time[idx])
         IN  IF ~p.ok THEN [forecast |-> <<>>, err |-> "parse date"]
             ELSE toForecastDaysFrom(d, idx + 1,
                      Append(out, [Date         |-> p.date,
                                   WindSpeedMax |-> d.WindSpeedMax[idx],
                                   WindGustMax  |-> d.WindGustMax[idx],
                                   WindDirMean  |-> d.WindDirMean[idx]]))

\* openMeteoDaily.toForecastDays
toForecastDays(d) ==
    IF Len(d.Time) = 0 THEN [forecast |-> <<>>, err |-> "no daily data returned"]
    ELSE IF \/ Len(d.Time) # Len(d.WindSpeedMax)
            \/ Len(d.Time) # Len(d.WindGustMax)
            \/ Len(d.Time) # Len(d.WindDirMean)
         THEN [forecast |-> <<>>, err |-> "open-meteo arrays differ in length"]
    ELSE toForecastDaysFrom(d, 1, <<>>)

\* What the provider may answer: the transport fails, or an HTTP status with
\* a body that decodes or not, with or without a daily block.
Daily(T, S, G, D) == [Time |-> T, WindSpeedMax |-> S, WindGustMax |-> G, WindDirMean |-> D]

Response(transportOK, status, jsonOK, hasDaily, daily) ==
    [transportOK |-> transportOK, status |-> status, jsonOK |-> jsonOK,
     hasDaily |-> hasDaily, daily |-> daily]

NoDaily == Daily(<<>>, <<>>, <<>>, <<>>)

Day1 == DateStr(2026, 1, 29)
Day2 == DateStr(2026, 1, 30)
BadDay == DateStr(2026, 13, 1)

Responses ==
    { Response(FALSE, 0, FALSE, FALSE, NoDaily),
      Response(TRUE, 503, FALSE, FALSE, NoDaily),
      Response(TRUE, StatusOK, TRUE, TRUE,
               Daily(<<Day1, Day2>>, <<185>>, <<321, 385>>, <<900, 2700>>)),
      Response(TRUE, StatusOK, TRUE, TRUE,
               Daily(<<Day1, BadDay>>, <<185, 223>>, <<321, 385>>, <<900, 2700>>)),
      Response(TRUE, StatusOK, TRUE, TRUE,
               Daily(<<Day1>>, <<185>>, <<321>>, <<900>>)),
      Response(TRUE, StatusOK, TRUE, TRUE,
               Daily(<<Day1, Day2>>, <<185, 223>>, <<321, 385>>, <<2700, 0>>)) }

\* OpenMeteoClient.Fetch: every failure returns the nil slice with an error.
Fetch(days, resp) ==
    IF days < 1 THEN [forecast |-> <<>>, err |-> "days must be >= 1"]
    ELSE IF ~resp.transportOK THEN [forecast |-> <<>>, err |-> "call open-meteo"]
    ELSE IF resp.status # StatusOK THEN [forecast |-> <<>>, err |-> "open-meteo returned status"]
    ELSE IF ~resp.jsonOK THEN [forecast |-> <<>>, err |-> "decode open-meteo response"]
    ELSE IF ~resp.hasDaily THEN [forecast |-> <<>>, err |-> "open-meteo response missing daily block"]
    ELSE toForecastDays(resp.daily)

\* --------------------------------------------------------- report builders
Text(str) == [k |-> "text", s |-> str]

\* fmt "%4.0f" of a non-negative value in tenths: the nearest integer, a half
\* going to the even one.
FormatWhole(x10) ==
    LET q == x10 \div 10
        r == x10 % 10
    IN  IF r > 5 \/ (r = 5 /\ q % 2 = 1) THEN q + 1 ELSE q

\* fmt "%8.1f": the integer part and the decimal.
FormatTenths(x10) == <<x10 \div 10, x10 % 10>>

RowEasterly(day) ==
    [k    |-> "row",
     date |-> FormatDayMonth(day.Date),
     wind |-> FormatWhole(day.WindSpeedMax),
     dir  |-> degToCompass(day.WindDirMean),
     east |-> IF isEasterly(day.WindDirMean) THEN " plane" ELSE "   "]

\* agent.go buildForecastTable: header, separator, one line per day.
buildForecastTable(days) ==
    <<Text("Date       | Wind | Dir | East\n"), Text("-----------+------+-----+-----\n")>>
    \o [i \in 1..Len(days) |-> RowEasterly(days[i])]

RowWind(day) ==
    [k    |-> "row",
     date |-> FormatISO(day.Date),
     wind |-> FormatTenths(day.WindSpeedMax),
     gust |-> FormatTenths(day.WindGustMax),
     dir  |-> degToCompassWind(day.WindDirMean)]

\* part_000 buildForecastTable
buildForecastTableWind(days) ==
    <<Text("Date        | Wind Max | Gust Max | Dir\n"), Text("------------+----------+---------+------\n")>>
    \o [i \in 1..Len(days) |-> RowWind(days[i])]

RECURSIVE countEasterlyDays(_)
countEasterlyDays(days) ==
    IF days = <<>> THEN 0
    ELSE countEasterlyDays(SubSeq(days, 1, Len(days) - 1))
         + (IF isEasterly(days[Len(days)].WindDirMean) THEN 1 ELSE 0)

\* The one-line text "Dominant: %s | East: %d days | West: %d days\n".
buildEasterlyAnalysis(days) ==
    LET eastCount == countEasterlyDays(days)
        westCount == Len(days) - eastCount
    IN  <<[k        |-> "analysis",
           dominant |-> IF eastCount > westCount THEN "E plane"
                        ELSE IF westCount > eastCount THEN "W"
                        ELSE "Mixed",
           east     |-> eastCount,
           west     |-> westCount]>>

fallbackLocation(name) ==
    IF name \in {"", " "} THEN "the target location" ELSE name

\* agent.go buildPrompt
buildPrompt(location, table, easterlyAnalysis) ==
    <<Text(location), Text(" wind forecast. Easterly wind = planes overhead.\n\n")>>
    \o easterlyAnalysis \o <<Text("\n")>> \o table
    \o <<Text("\nSummarize briefly: how many easterly days and when does wind change direction?")>>

\* part_000 buildPrompt
buildPromptWind(location, table) ==
    <<Text("Summarize the next 15 days wind forecast for "), Text(location),
      Text(" in a very compact way: ... Tabular data:\n")>>
    \o table \o <<Text("\n")>>

\* formatTelegramTable: the table in a Markdown code fence (three backquotes,
\* written (fence) here).
formatTelegramTable(table) == <<Text("(fence)\n")>> \o table \o <<Text("(fence)")>>

\* The first (or fallback) message: agent.go lines 94 and 108 add the
\* analysis line, part_000 lines 90 and 103 send the fenced table alone.
tableMsg(v, table, easterlyAnalysis) ==
    IF v = "easterly"
    THEN formatTelegramTable(table) \o <<Text("\n")>> \o easterlyAnalysis
    ELSE formatTelegramTable(table)

\* sendTelegramMessage: one POST; nil, or the error of a failed transport or
\* of a status other than 200.
SendOutcomes == {"nil", "telegram send failed"}

\* A variant of ChatConfigured that takes either credential as enough.
ChatConfiguredEither(c) == c.TelegramToken # "" \/ c.TelegramChatID # ""

\* a.cfg.TelegramToken != "" && a.cfg.TelegramChatID != ""
ChatConfigured(c) == c.TelegramToken # "" /\ c.TelegramChatID # ""

\* agent.New
New(c) ==
    IF c.ForecastDays <= 0 THEN [c EXCEPT !.ForecastDays = DefaultForecastDays] ELSE c

\* ollama.Client.Generate: a summary text, or an error.
GenerateOutcomes ==
    { [summary |-> <<Text("Easterly on one day, turning west.")>>, err |-> "nil"],
      [summary |-> <<>>, err |-> "ollama failed"] }

\* ------------------------------------------------------------ environment
EnvHours == { <<>>, <<"9">>, <<"2", "4">> }
EnvMinutes == { <<>>, <<"3", "0">> }

RawConfigs ==
    [LocationName   : {"London Heathrow"},
     ForecastDays   : {0},
     Weather        : BOOLEAN,
     Ollama         : BOOLEAN,
     TelegramToken  : {"", "token"},
     TelegramChatID : {"", "42"}]

Variants == {"easterly", "wind"}

\* Clock readings when Run is called: around the default trigger of day 0.
StartTimes ==
    LET t0 == DefaultRunHour * TicksPerHour + DefaultRunMinute * TicksPerMinute
    IN  {t0 - 1, t0, t0 + 1}

\* Ticks an external call may take, and a timer may fire late.
CallTicks == {0, 1}
Lateness == {0, 1}

Call(op, text, err) == [op |-> op, text |-> text, err |-> err]

\* Where Run is when the cancellation signal fires.
Phase(p) ==
    IF p \in {"start", "loopTop"} THEN "top"
    ELSE IF p = "fetch" THEN "fetch"
    ELSE IF p \in {"report", "summarize"} THEN "summarize"
    ELSE IF p = "wait" THEN "wait"
    ELSE "notify"

Cancelled == cancelledAt # "none"

\* No body under normalization, nothing normalized.
NoPayload == [kind |-> "none"]
NoRain == [outcome |-> "none"]

\* ------------------------------------------------------------------- Init
Init ==
    /\ pc = "start"
    /\ cancelledAt = "none"
    /\ cfg \in {New(c) : c \in RawConfigs}
    /\ variant \in Variants
    /\ env \in [hour : EnvHours, minute : EnvMinutes]
    /\ runHour = DefaultRunHour
    /\ runMinute = DefaultRunMinute
    /\ startTime \in StartTimes
    /\ now = startTime
    /\ next = 0
    /\ cycleStart = startTime
    /\ cycle = 0
    /\ forecast = <<>>
    /\ fetchErr = "nil"
    /\ report = <<>>
    /\ analysis = <<>>
    /\ prompt = <<>>
    /\ summary = <<>>
    /\ llmErr = "nil"
    /\ calls = <<>>
    /\ result = "none"
    /\ payload = NoPayload
    /\ rain = NoRain

\* ---------------------------------------------------------------- actions
\* Run, lines 46-57.
ReadSchedule ==
    /\ pc = "start"
    /\ runHour' = ScheduleHour(env.hour)
    /\ runMinute' = ScheduleMinute(env.minute)
    /\ pc' = "loopTop"
    /\ UNCHANGED <<cancelledAt, cfg, variant, env, payload, rain, now, next, startTime, cycleStart,
                   cycle, forecast, fetchErr, report, analysis, prompt, summary,
                   llmErr, calls, result>>

Return(r) ==
    /\ pc' = "returned"
    /\ result' = r
    /\ UNCHANGED <<cancelledAt, cfg, variant, env, payload, rain, runHour, runMinute, now, next,
                   startTime, cycleStart, cycle, forecast, fetchErr, report,
                   analysis, prompt, summary, llmErr, calls>>

StartCycle ==
    /\ cycle < MaxCycles
    /\ pc' = "fetch"
    /\ cycle' = cycle + 1
    /\ cycleStart' = now
    /\ forecast' = <<>>
    /\ fetchErr' = "nil"
    /\ report' = <<>>
    /\ analysis' = <<>>
    /\ prompt' = <<>>
    /\ summary' = <<>>
    /\ llmErr' = "nil"
    /\ calls' = <<>>
    /\ UNCHANGED <<cancelledAt, cfg, variant, env, payload, rain, runHour, runMinute, now, next,
                   startTime, result>>

\* A variant of LoopTop without the look at ctx.Done().
LoopTopNoCtxCheck ==
    /\ pc = "loopTop"
    /\ IF ~cfg.Weather THEN Return("weather client is missing")
       ELSE IF ~cfg.Ollama THEN Return("ollama client is missing")
       ELSE StartCycle

\* A variant of LoopTop without the check of the weather client.
LoopTopNoWeatherCheck ==
    /\ pc = "loopTop"
    /\ IF Cancelled THEN Return("context canceled")
       ELSE IF ~cfg.Ollama THEN Return("ollama client is missing")
       ELSE StartCycle

\* Run, lines 58-70: the non-blocking look at ctx.Done(), then the checks of
\* the two dependencies.
LoopTop ==
    /\ pc = "loopTop"
    /\ IF Cancelled THEN Return("context canceled")
       ELSE IF ~cfg.Weather THEN Return("weather client is missing")
       ELSE IF ~cfg.Ollama THEN Return("ollama client is missing")
       ELSE StartCycle

\* A variant of FetchForecast that gives up the cycle when Fetch fails.
FetchForecastSkipsCycle ==
    /\ pc = "fetch"
    /\ \E resp \in Responses, d \in CallTicks :
          LET r == Fetch(cfg.ForecastDays, resp)
          IN  /\ forecast' = r.forecast
              /\ fetchErr' = r.err
              /\ calls' = Append(calls, Call("fetch", <<>>, r.err))
              /\ now' = now + d
              /\ pc' = IF r.err # "nil" THEN "sleep" ELSE "report"
    /\ UNCHANGED <<cancelledAt, cfg, variant, env, payload, rain, runHour, runMinute, next,
                   startTime, cycleStart, cycle, report, analysis, prompt,
                   summary, llmErr, result>>

\* A variant of FetchForecast that returns the error of Fetch from Run.
FetchForecastReturnsError ==
    /\ pc = "fetch"
    /\ \E resp \in Responses, d \in CallTicks :
          LET r == Fetch(cfg.ForecastDays, resp)
          IN  /\ forecast' = r.forecast
              /\ fetchErr' = r.err
              /\ calls' = Append(calls, Call("fetch", <<>>, r.err))
              /\ now' = now + d
              /\ pc' = IF r.err # "nil" THEN "returned" ELSE "report"
              /\ result' = IF r.err # "nil" THEN r.err ELSE result
    /\ UNCHANGED <<cancelledAt, cfg, variant, env, payload, rain, runHour, runMinute, next,
                   startTime, cycleStart, cycle, report, analysis, prompt,
                   summary, llmErr>>

\* Run, lines 72-75: the forecast, nil when Fetch fails; the error is printed.
FetchForecast ==
    /\ pc = "fetch"
    /\ \E resp \in Responses, d \in CallTicks :
          LET r == Fetch(cfg.ForecastDays, resp)
          IN  /\ forecast' = r.forecast
              /\ fetchErr' = r.err
              /\ calls' = Append(calls, Call("fetch", <<>>, r.err))
              /\ now' = now + d
    /\ pc' = "report"
    /\ UNCHANGED <<cancelledAt, cfg, variant, env, payload, rain, runHour, runMinute, next,
                   startTime, cycleStart, cycle, report, analysis, prompt,
                   summary, llmErr, result>>

\* Run, lines 77-88 (part_000 lines 77-85): table, analysis line and prompt.
BuildReport ==
    /\ pc = "report"
    /\ LET location == fallbackLocation(cfg.LocationName)
           table    == IF variant = "easterly" THEN buildForecastTable(forecast)
                       ELSE buildForecastTableWind(forecast)
           line     == IF variant = "easterly" THEN buildEasterlyAnalysis(forecast)
                       ELSE <<>>
       IN  /\ report' = table
           /\ analysis' = line
           /\ prompt' = IF variant = "easterly" THEN buildPrompt(location, table, line)
                        ELSE buildPromptWind(location, table)
    /\ pc' = "summarize"
    /\ UNCHANGED <<cancelledAt, cfg, variant, env, payload, rain, runHour, runMinute, now, next,
                   startTime, cycleStart, cycle, forecast, fetchErr, summary,
                   llmErr, calls, result>>

\* A variant of Summarize that sends nothing when the LLM call fails.
SummarizeNoFallback ==
    /\ pc = "summarize"
    /\ \E g \in GenerateOutcomes, d \in CallTicks :
          /\ summary' = g.summary
          /\ llmErr' = g.err
          /\ calls' = Append(calls, Call("generate", prompt, g.err))
          /\ now' = now + d
          /\ pc' = IF ~ChatConfigured(cfg) \/ g.err # "nil" THEN "sleep" ELSE "sendTable"
    /\ UNCHANGED <<cancelledAt, cfg, variant, env, payload, rain, runHour, runMinute, next,
                   startTime, cycleStart, cycle, forecast, fetchErr, report,
                   analysis, prompt, result>>

\* A variant of Summarize that calls the LLM a second time when the first
\* call fails.
SummarizeRetries ==
    /\ pc = "summarize"
    /\ \E g \in GenerateOutcomes, d \in CallTicks :
          /\ summary' = g.summary
          /\ llmErr' = g.err
          /\ calls' = Append(calls, Call("generate", prompt, g.err))
          /\ now' = now + d
          /\ pc' = IF g.err # "nil" /\ Len(calls) < 2 THEN "summarize"
                   ELSE IF ~ChatConfigured(cfg) THEN "sleep"
                   ELSE IF g.err # "nil" THEN "fallback" ELSE "sendTable"
    /\ UNCHANGED <<cancelledAt, cfg, variant, env, payload, rain, runHour, runMinute, next,
                   startTime, cycleStart, cycle, forecast, fetchErr, report,
                   analysis, prompt, result>>

\* A variant of Summarize that sends nothing once ctx is cancelled.
SummarizeQuietWhenCancelled ==
    /\ pc = "summarize"
    /\ \E g \in GenerateOutcomes, d \in CallTicks :
          /\ summary' = g.summary
          /\ llmErr' = g.err
          /\ calls' = Append(calls, Call("generate", prompt, g.err))
          /\ now' = now + d
          /\ pc' = IF ~ChatConfigured(cfg) \/ Cancelled THEN "sleep"
                   ELSE IF g.err # "nil" THEN "fallback" ELSE "sendTable"
    /\ UNCHANGED <<cancelledAt, cfg, variant, env, payload, rain, runHour, runMinute, next,
                   startTime, cycleStart, cycle, forecast, fetchErr, report,
                   analysis, prompt, result>>

\* Run, lines 89-92 and 102-106: the LLM call and the branch on its error and
\* on the chat destination.
Summarize ==
    /\ pc = "summarize"
    /\ \E g \in GenerateOutcomes, d \in CallTicks :
          /\ summary' = g.summary
          /\ llmErr' = g.err
          /\ calls' = Append(calls, Call("generate", prompt, g.err))
          /\ now' = now + d
          /\ pc' = IF ~ChatConfigured(cfg) THEN "sleep"
                   ELSE IF g.err # "nil" THEN "fallback" ELSE "sendTable"
    /\ UNCHANGED <<cancelledAt, cfg, variant, env, payload, rain, runHour, runMinute, next,
                   startTime, cycleStart, cycle, forecast, fetchErr, report,
                   analysis, prompt, result>>

Send(text, to) ==
    /\ \E e \in SendOutcomes : calls' = Append(calls, Call("send", text, e))
    /\ pc' = to
    /\ UNCHANGED <<cancelledAt, cfg, variant, env, payload, rain, runHour, runMinute, now, next,
                   startTime, cycleStart, cycle, forecast, fetchErr, report,
                   analysis, prompt, summary, llmErr, result>>

\* A variant of SendFallback that goes on to send the summary.
SendFallbackThenSummary ==
    /\ pc = "fallback"
    /\ Send(tableMsg(variant, report, analysis), "sendSummary")

\* Run, lines 93-100: the fallback message.
SendFallback ==
    /\ pc = "fallback"
    /\ Send(tableMsg(variant, report, analysis), "sleep")

\* A variant of SendTable that gives up the summary when the table message
\* fails.
SendTableStopsOnError ==
    /\ pc = "sendTable"
    /\ \E e \in SendOutcomes :
          /\ calls' = Append(calls, Call("send", tableMsg(variant, report, analysis), e))
          /\ pc' = IF e # "nil" THEN "sleep" ELSE "sendSummary"
    /\ UNCHANGED <<cancelledAt, cfg, variant, env, payload, rain, runHour, runMinute, now, next,
                   startTime, cycleStart, cycle, forecast, fetchErr, report,
                   analysis, prompt, summary, llmErr, result>>

\* Run, lines 107-112: the table message; its error is printed.
SendTable ==
    /\ pc = "sendTable"
    /\ Send(tableMsg(variant, report, analysis), "sendSummary")

\* A variant of SendSummary that returns the error of a failed send from Run.
SendSummaryReturnsError ==
    /\ pc = "sendSummary"
    /\ \E e \in SendOutcomes :
          /\ calls' = Append(calls, Call("send", summary, e))
          /\ pc' = IF e # "nil" THEN "returned" ELSE "sleep"
          /\ result' = IF e # "nil" THEN e ELSE result
    /\ UNCHANGED <<cancelledAt, cfg, variant, env, payload, rain, runHour, runMinute, now, next,
                   startTime, cycleStart, cycle, forecast, fetchErr, report,
                   analysis, prompt, summary, llmErr>>

\* Run, lines 113-118: the summary message; its error is printed.
SendSummary ==
    /\ pc = "sendSummary"
    /\ Send(summary, "sleep")

\* Run, lines 123-129.
ComputeSleep ==
    /\ pc = "sleep"
    /\ next' = NextRun(now, runHour, runMinute)
    /\ pc' = "wait"
    /\ UNCHANGED <<cancelledAt, cfg, variant, env, payload, rain, runHour, runMinute, now,
                   startTime, cycleStart, cycle, forecast, fetchErr, report,
                   analysis, prompt, summary, llmErr, calls, result>>

\* Run, lines 130-132: ctx.Done() wins the select.
WaitCancelled ==
    /\ pc = "wait"
    /\ Cancelled
    /\ Return("context canceled")

\* A variant of WaitTimer that ends Run when the timer fires.
WaitTimerReturns ==
    /\ pc = "wait"
    /\ \E late \in Lateness : now' = next + late
    /\ pc' = "returned"
    /\ result' = "nil"
    /\ UNCHANGED <<cancelledAt, cfg, variant, env, payload, rain, runHour, runMinute, next,
                   startTime, cycleStart, cycle, forecast, fetchErr, report,
                   analysis, prompt, summary, llmErr, calls>>

\* Run, lines 133-135: the timer fires, at the trigger instant or after it,
\* and wins the select (also when ctx.Done() is ready at the same moment).
WaitTimer ==
    /\ pc = "wait"
    /\ \E late \in Lateness : now' = next + late
    /\ pc' = "loopTop"
    /\ UNCHANGED <<cancelledAt, cfg, variant, env, payload, rain, runHour, runMinute, next,
                   startTime, cycleStart, cycle, forecast, fetchErr, report,
                   analysis, prompt, summary, llmErr, calls, result>>

\* The caller cancels ctx.
Cancel ==
    /\ pc # "returned"
    /\ ~Cancelled
    /\ cancelledAt' = Phase(pc)
    /\ UNCHANGED <<pc, cfg, variant, env, payload, rain, runHour, runMinute, now, next, startTime,
                   cycleStart, cycle, forecast, fetchErr, report, analysis, prompt,
                   summary, llmErr, calls, result>>

Next ==
    \/ ReadSchedule
    \/ LoopTop
    \/ FetchForecast
    \/ BuildReport
    \/ Summarize
    \/ SendFallback
    \/ SendTable
    \/ SendSummary
    \/ ComputeSleep
    \/ WaitCancelled
    \/ WaitTimer
    \/ Cancel

Spec == Init /\ [][Next]_vars

\* ======================================================= properties of Run
Sends == SelectSeq(calls, LAMBDA c : c.op = "send")

Texts(seq) == [i \in 1..Len(seq) |-> seq[i].text]

IsPrefix(a, b) == Len(a) <= Len(b) /\ SubSeq(b, 1, Len(a)) = a

\* The cycle whose calls are in `calls` has run its last step.
CycleOver == cycle > 0 /\ pc \in {"sleep", "wait", "loopTop", "returned"}

FetchFailed == \E i \in 1..Len(calls) : calls[i].op = "fetch" /\ calls[i].err # "nil"

LLMCalled == \E i \in 1..Len(calls) : calls[i].op = "generate"

LLMSucceeded == \E i \in 1..Len(calls) : calls[i].op = "generate" /\ calls[i].err = "nil"

LLMFailed == \E i \in 1..Len(calls) : calls[i].op = "generate" /\ calls[i].err # "nil"

HasDestination == cfg.TelegramToken # "" /\ cfg.TelegramChatID # ""

\* The fenced table of the cycle's forecast followed by the analysis line.
FencedTableAndAnalysis ==
    <<Text("(fence)\n")>> \o buildForecastTable(forecast) \o <<Text("(fence)"), Text("\n")>>
    \o buildEasterlyAnalysis(forecast)

\* The fenced wind/gust table of the cycle's forecast, alone.
FencedWindTable ==
    <<Text("(fence)\n")>> \o buildForecastTableWind(forecast) \o <<Text("(fence)")>>

FirstMessage == IF variant = "easterly" THEN FencedTableAndAnalysis ELSE FencedWindTable

\* C1 as stated: when the LLM call of a cycle succeeds and a chat destination
\* is configured, exactly two sends are attempted in the cycle, first the
\* fenced table plus analysis line, then the LLM summary.
C1_AsStated ==
    (CycleOver /\ LLMSucceeded /\ HasDestination)
        => Texts(Sends) = <<FencedTableAndAnalysis, summary>>

\* C1 amended: when the LLM call of a cycle succeeds and a chat destination is
\* configured, exactly two sends are attempted in the cycle, in this order:
\* first the fenced table (followed by the analysis line in agent.go; the
\* fenced table alone in part_000, which has no analysis line), then the LLM
\* summary.
C1_TwoSendsTableThenSummary ==
    (LLMSucceeded /\ HasDestination)
        => /\ IsPrefix(Texts(Sends), <<FirstMessage, summary>>)
           /\ CycleOver => Texts(Sends) = <<FirstMessage, summary>>
           /\ summary # <<>>

C1_Witness ==
    /\ pc = "wait"
    /\ LLMSucceeded
    /\ HasDestination
    /\ Len(Sends) = 2
    /\ Len(forecast) = 2

\* C2 as stated: when the LLM call of a cycle fails and a chat destination is
\* configured, exactly one send is attempted in the cycle, its text is the
\* fenced table followed by the analysis line, and the summary is never sent.
C2_AsStated ==
    (CycleOver /\ LLMFailed /\ HasDestination)
        => Texts(Sends) = <<FencedTableAndAnalysis>>

\* C2 amended: when the LLM call of a cycle fails and a chat destination is
\* configured, exactly one send is attempted in the cycle; its text is the
\* fenced table (followed by the analysis line in agent.go; the fenced table
\* alone in part_000), and no summary is sent in the cycle.
C2_OneFallbackSend ==
    (LLMFailed /\ HasDestination)
        => /\ IsPrefix(Texts(Sends), <<FirstMessage>>)
           /\ CycleOver => Texts(Sends) = <<FirstMessage>>
           /\ \A i \in 1..Len(Sends) :
                 \A g \in GenerateOutcomes : g.err = "nil" => Sends[i].text # g.summary

C2_Witness ==
    /\ pc = "wait"
    /\ LLMFailed
    /\ HasDestination
    /\ Len(Sends) = 1
    /\ ~FetchFailed

\* The fenced table of the empty forecast: fence, header, separator, fence.
EmptyFencedTable ==
    IF variant = "easterly"
    THEN <<Text("(fence)\n"), Text("Date       | Wind | Dir | East\n"),
           Text("-----------+------+-----+-----\n"), Text("(fence)")>>
    ELSE <<Text("(fence)\n"), Text("Date        | Wind Max | Gust Max | Dir\n"),
           Text("------------+----------+---------+------\n"), Text("(fence)")>>

\* C3: a failed weather fetch does not skip or abort the cycle: the forecast
\* is the empty sequence, the table (header and separator only) and the
\* analysis line (Mixed, 0 east, 0 west) are built from it, the LLM is still
\* called, and the notifying step still runs: with the LLM succeeding and a
\* chat destination, exactly two messages, the empty fenced table and then
\* the summary; with the LLM failing, the one fallback message.
C3_FetchFailureDegradesCycle ==
    FetchFailed
        => /\ forecast = <<>>
           /\ pc # "report"
                 => /\ report = SubSeq(EmptyFencedTable, 2, 3)
                    /\ variant = "easterly"
                          => analysis = <<[k |-> "analysis", dominant |-> "Mixed",
                                           east |-> 0, west |-> 0]>>
           /\ CycleOver => LLMCalled
           /\ (CycleOver /\ LLMSucceeded /\ HasDestination)
                 => /\ Len(Sends) = 2
                    /\ SubSeq(Sends[1].text, 1, 4) = EmptyFencedTable
                    /\ Len(Sends[1].text) = (IF variant = "easterly" THEN 6 ELSE 4)
                    /\ Sends[2].text = summary
           /\ (CycleOver /\ LLMFailed /\ HasDestination)
                 => /\ Len(Sends) = 1
                    /\ SubSeq(Sends[1].text, 1, 4) = EmptyFencedTable

C3_Witness ==
    /\ pc = "wait"
    /\ FetchFailed
    /\ LLMSucceeded
    /\ HasDestination
    /\ Len(Sends) = 2
    /\ variant = "easterly"

\* C4 as stated: in every cycle with a chat destination configured the user
\* receives at least one notification, whatever weather, LLM and chat calls
\* fail: no cycle ends with zero notifications delivered.
C4_AsStated ==
    (CycleOver /\ HasDestination)
        => \E i \in 1..Len(Sends) : Sends[i].err = "nil"

\* C4 amended: in every cycle with a chat destination configured at least one
\* notification send is attempted, whatever weather, LLM and chat calls fail;
\* a notification is delivered unless every send attempted in the cycle fails.
C4_AtLeastOneSendAttempted ==
    (CycleOver /\ HasDestination)
        => /\ Len(Sends) >= 1
           /\ LLMCalled

C4_Witness ==
    /\ pc = "wait"
    /\ HasDestination
    /\ FetchFailed
    /\ LLMFailed
    /\ Len(Sends) = 1
    /\ Sends[1].err # "nil"

\* C5: Run returns only with the cancellation outcome after the cancellation
\* signal has fired, or with a configuration error before any external call;
\* once a cycle has started, no failure of a weather, LLM or chat call makes
\* Run return.
C5_ReturnsOnlyOnCancelOrConfig ==
    /\ pc = "returned"
          => \/ result = "context canceled" /\ Cancelled
             \/ /\ result = "weather client is missing"
                /\ ~cfg.Weather
                /\ cycle = 0 /\ calls = <<>>
             \/ /\ result = "ollama client is missing"
                /\ ~cfg.Ollama
                /\ cycle = 0 /\ calls = <<>>
    /\ pc # "returned" => result = "none"

C5_Witness ==
    /\ pc = "returned"
    /\ result = "context canceled"
    /\ cycle = 2
    /\ FetchFailed
    /\ LLMFailed
    /\ Len(Sends) = 1
    /\ Sends[1].err # "nil"

\* ------------------------------------------- the scheduling step on its own
\* The end of a cycle (no chat destination, both calls failed) at every clock
\* reading of SchedDays days, for schedules at both ends of the day and the
\* default one.
SchedEnvHours == { <<>>, <<"0">>, <<"2", "3">> }
SchedEnvMinutes == { <<>>, <<"3", "0">>, <<"5", "9">> }

SchedConfig ==
    New([LocationName |-> "London Heathrow", ForecastDays |-> 0, Weather |-> TRUE,
         Ollama |-> TRUE, TelegramToken |-> "", TelegramChatID |-> ""])

InitSched ==
    /\ pc = "sleep"
    /\ cancelledAt = "none"
    /\ cfg = SchedConfig
    /\ variant = "easterly"
    /\ env \in [hour : SchedEnvHours, minute : SchedEnvMinutes]
    /\ runHour = ScheduleHour(env.hour)
    /\ runMinute = ScheduleMinute(env.minute)
    /\ now \in 0..(SchedDays * TicksPerDay - 1)
    /\ startTime = now
    /\ cycleStart = now
    /\ next = 0
    /\ cycle = 1
    /\ forecast = <<>>
    /\ fetchErr = "call open-meteo"
    /\ report = buildForecastTable(<<>>)
    /\ analysis = buildEasterlyAnalysis(<<>>)
    /\ prompt = buildPrompt(fallbackLocation(cfg.LocationName), report, analysis)
    /\ summary = <<>>
    /\ llmErr = "ollama failed"
    /\ calls = <<Call("fetch", <<>>, fetchErr), Call("generate", prompt, llmErr)>>
    /\ result = "none"
    /\ payload = NoPayload
    /\ rain = NoRain

NextSched == ComputeSleep

SpecSched == InitSched /\ [][NextSched]_vars

\* The configured time of day, in ticks after midnight.
TriggerOfDay == runHour * TicksPerHour + runMinute * TicksPerMinute

\* C6: the trigger instant computed at the end of a cycle is the earliest
\* instant strictly after now whose time of day is runHour:runMinute: today's
\* if that is still ahead, tomorrow's otherwise (also when now is exactly the
\* trigger time), so the wait is more than 0 and at most 24 hours.  With the
\* trigger 10:00: now 09:00 gives today 10:00, now 10:01 and now 10:00 give
\* tomorrow 10:00.
C6_NextTriggerIsEarliestLater ==
    pc = "wait"
        => LET today == now - (now % TicksPerDay)
           IN  /\ next % TicksPerDay = TriggerOfDay
               /\ next > now
               /\ next - now <= TicksPerDay
               /\ next - TicksPerDay <= now
               /\ now % TicksPerDay < TriggerOfDay => next = today + TriggerOfDay
               /\ now % TicksPerDay >= TriggerOfDay
                     => next = today + TicksPerDay + TriggerOfDay
               /\ (runHour = 10 /\ runMinute = 0 /\ now % TicksPerDay = 9 * TicksPerHour)
                     => next = today + 10 * TicksPerHour
               /\ (runHour = 10 /\ runMinute = 0
                   /\ now % TicksPerDay \in {10 * TicksPerHour, 10 * TicksPerHour + TicksPerMinute})
                     => next = today + TicksPerDay + 10 * TicksPerHour

C6_Witness ==
    /\ pc = "wait"
    /\ runHour = 10
    /\ runMinute = 0
    /\ now = TicksPerDay + 10 * TicksPerHour
    /\ next = now + TicksPerDay

\* The latest trigger instant at or before t.
LastTrigger(t) ==
    LET td == (t - (t % TicksPerDay)) + TriggerOfDay
    IN  IF td <= t THEN td ELSE td - TicksPerDay

\* C7 as stated: a cycle starts only at a trigger instant: Run is idle from
\* process start until the first trigger instant, so a trigger instant lies
\* between the call of Run and the start of any cycle.
C7_AsStated ==
    (cycle > 0 /\ pc # "start") => LastTrigger(cycleStart) >= startTime

\* C8: once the cancellation signal has arrived during the idle wait, every
\* step of Run leaves the calls of the cycle as they are and starts no cycle:
\* Run goes from the wait to its return (through the loop top when the timer
\* won the select at the same moment) and returns the cancellation outcome.
C8_CancelInWaitStartsNoCycle ==
    [][cancelledAt = "wait"
          => /\ calls' = calls
             /\ cycle' = cycle
             /\ pc' \in {"wait", "loopTop", "returned"}
             /\ pc' = "returned" => result' = "context canceled"]_vars

C8_Witness ==
    /\ pc = "returned"
    /\ cancelledAt = "wait"
    /\ result = "context canceled"
    /\ now >= next
    /\ cycle = 1

DependencyMissing == ~cfg.Weather \/ ~cfg.Ollama

\* C9 as stated: with the weather or the LLM dependency missing, Run returns
\* a configuration error before the first cycle and performs no fetch, LLM
\* call or send.
C9_AsStated ==
    DependencyMissing
        => /\ cycle = 0 /\ calls = <<>>
           /\ pc = "returned"
                 => result \in {"weather client is missing", "ollama client is missing"}

\* C9 amended: with the weather or the LLM dependency missing, Run returns
\* before the first cycle, with a configuration error, or with the
\* cancellation outcome when the cancellation signal has fired before the
\* first look at it; no fetch, LLM call or send is ever performed.
C9_MissingDependencyNoCycle ==
    DependencyMissing
        => /\ cycle = 0 /\ calls = <<>>
           /\ pc \in {"start", "loopTop", "returned"}
           /\ pc = "returned"
                 => result = (IF Cancelled THEN "context canceled"
                              ELSE IF ~cfg.Weather THEN "weather client is missing"
                              ELSE "ollama client is missing")

C9_Witness ==
    /\ pc = "returned"
    /\ cfg.Weather
    /\ ~cfg.Ollama
    /\ result = "ollama client is missing"
    /\ HasDestination

\* C10: with no chat destination (token or chat id empty) no send is
\* attempted in any cycle, after a successful or a failed LLM call, and that
\* is no error: after the LLM call the cycle is over, Run computes the next
\* trigger and waits, and returns only on cancellation.
C10_NoDestinationNoSend ==
    (cfg.TelegramToken = "" \/ cfg.TelegramChatID = "")
        => /\ Len(Sends) = 0
           /\ pc \notin {"fallback", "sendTable", "sendSummary"}
           /\ LLMCalled => pc \in {"sleep", "wait", "loopTop", "returned"}
           /\ (pc = "returned" /\ cycle > 0) => result = "context canceled"

C10_Witness ==
    /\ pc = "loopTop"
    /\ cycle = 1
    /\ cfg.TelegramToken # ""
    /\ cfg.TelegramChatID = ""
    /\ LLMFailed
    /\ calls[Len(calls)].op = "generate"

\* ------------------------------------------------------------------- C11
\* Some send of the cycle came back with an error.
SendFailed == \E i \in 1..Len(Sends) : Sends[i].err # "nil"

\* What a step of Run does to pc on the way from the first send to the next
\* cycle: the same whatever the sends answered.
C11_FlowAfterSend ==
    /\ pc = "sendTable" /\ pc' # pc => pc' = "sendSummary"
    /\ pc = "sendSummary" /\ pc' # pc => pc' = "sleep"
    /\ pc = "sleep" /\ pc' # pc => pc' = "wait"
    /\ pc = "wait" /\ pc' # pc /\ ~Cancelled => pc' = "loopTop"
    /\ pc = "loopTop" /\ pc' # pc /\ ~Cancelled /\ cycle > 0 => pc' = "fetch"

\* C11: when the LLM call succeeded and a destination is configured, a table
\* message that fails to send is still followed by the send of the summary,
\* and a failed send of either message does not end Run: the cycle goes on to
\* the wait and, unless ctx is cancelled, to the next cycle.
C11_SendFailureStopsNothing ==
    [][/\ C11_FlowAfterSend
       /\ (LLMSucceeded /\ HasDestination /\ CycleOver /\ SendFailed
             => /\ Len(Sends) = 2
                /\ Sends[2].text = summary
                /\ result \in {"none", "context canceled"})'
      ]_vars

\* Both sends failed, the wait is over and Run is at the loop top, about to
\* start the next cycle.
C11_Witness ==
    /\ pc = "loopTop"
    /\ ~Cancelled
    /\ cycle = 1
    /\ LLMSucceeded
    /\ Len(Sends) = 2
    /\ Sends[1].err # "nil"
    /\ Sends[2].err # "nil"
    /\ Sends[2].text = summary

\* ============================================== the classifiers on one day
\* A forecast of one day whose mean wind direction is any angle of MaxTurns
\* turns either way, in tenths of a degree, handed to the report builders.
MaxTurns == 2

Angles10 == (0 - MaxTurns * 10 * FullCircle)..(MaxTurns * 10 * FullCircle)

OneDay(dir10) ==
    <<[Date |-> <<2026, 1, 29>>, WindSpeedMax |-> 185, WindGustMax |-> 321,
       WindDirMean |-> dir10]>>

InitCompass ==
    /\ pc = "report"
    /\ cancelledAt = "none"
    /\ cfg = SchedConfig
    /\ variant \in Variants
    /\ env = [hour |-> <<>>, minute |-> <<>>]
    /\ runHour = ScheduleHour(env.hour)
    /\ runMinute = ScheduleMinute(env.minute)
    /\ startTime = DefaultRunHour * TicksPerHour
    /\ now = startTime
    /\ cycleStart = startTime
    /\ next = 0
    /\ cycle = 1
    /\ \E a \in Angles10 : forecast = OneDay(a)
    /\ fetchErr = "nil"
    /\ report = <<>>
    /\ analysis = <<>>
    /\ prompt = <<>>
    /\ summary = <<>>
    /\ llmErr = "nil"
    /\ calls = <<Call("fetch", <<>>, fetchErr)>>
    /\ result = "none"
    /\ payload = NoPayload
    /\ rain = NoRain

NextCompass == BuildReport

SpecCompass == InitCompass /\ [][NextCompass]_vars

\* The angle of the day, and the direction its table row shows.
DayAngle == forecast[1].WindDirMean

ShownDir == report[3].dir

\* The angle brought into [0,360), in tenths: ((d mod 360) + 360) mod 360.
Mod360(d10) == ((d10 % (10 * FullCircle)) + 10 * FullCircle) % (10 * FullCircle)

\* C12: for every angle d, also below -360, the normalization of both
\* classifiers gives a value in [0,360) equal to ((d mod 360) + 360) mod 360,
\* and the direction shown for d is the direction of the normalized angle.
C12_AsStated ==
    pc = "summarize" =>
        /\ normalizeDeg(DayAngle) >= 0
        /\ normalizeDeg(DayAngle) < FullCircle
        /\ 10 * normalizeDeg(DayAngle) = Mod360(DayAngle)
        /\ ShownDir = IF variant = "easterly" THEN degToCompass(Mod360(DayAngle))
                      ELSE degToCompassWind(Mod360(DayAngle))
        /\ variant = "easterly" =>
              (report[3].east = " plane") = isEasterly(Mod360(DayAngle))

\* C13: the two-point classifier says East exactly for the normalized angles
\* strictly between 0 and 180, fractional ones included, and West otherwise.
C13_AsStated ==
    pc = "summarize" /\ variant = "easterly" /\ DayAngle >= 0 /\ DayAngle < 10 * FullCircle =>
        /\ ShownDir = IF DayAngle > 0 /\ DayAngle < 10 * HalfCircle THEN "E" ELSE "W"
        /\ (report[3].east = " plane") = (DayAngle > 0 /\ DayAngle < 10 * HalfCircle)

\* C14: the four-point classifier maps a normalized angle to East on
\* [30,150), South on [150,210), West on [210,330) and North on [330,360) and
\* [0,30): a boundary value goes to the upper category, a value just below it
\* to the lower one, and every angle of [0,360) gets exactly one category.
C14_FourPointIntervals ==
    pc = "summarize" /\ variant = "wind" /\ DayAngle >= 0 /\ DayAngle < 10 * FullCircle =>
        /\ ShownDir = "E" <=> DayAngle >= 300 /\ DayAngle < 1500
        /\ ShownDir = "S" <=> DayAngle >= 1500 /\ DayAngle < 2100
        /\ ShownDir = "W" <=> DayAngle >= 2100 /\ DayAngle < 3300
        /\ ShownDir = "N" <=> DayAngle >= 3300 \/ DayAngle < 300
        /\ ShownDir \in {"N", "E", "S", "W"}

\* 29.9 degrees, just below the East boundary, is shown as North.
C14_Witness ==
    /\ pc = "summarize"
    /\ variant = "wind"
    /\ DayAngle = 299
    /\ ShownDir = "N"

\* ================================================ the wind normalizer alone
\* Every decoded daily block of at most MaxDates dates, each a valid or a
\* malformed date string, with metric sequences of any length up to MaxDates.
MaxDates == 2

SeqsUpTo(S, n) == UNION {[1..k -> S] : k \in 0..n}

Take(seq, k) == SubSeq(seq, 1, k)

WindPayloads ==
    { [kind |-> "wind", daily |-> Daily(T, S, G, D)] :
        T \in SeqsUpTo({Day1, Day2, BadDay}, MaxDates),
        S \in {Take(<<185, 223, 96, 140>>, k) : k \in 0..MaxDates},
        G \in {Take(<<321, 385, 170, 255>>, k) : k \in 0..MaxDates},
        D \in SeqsUpTo({900, 2700}, MaxDates) }

InitWind ==
    /\ pc = "fetch"
    /\ cancelledAt = "none"
    /\ cfg = SchedConfig
    /\ variant = "easterly"
    /\ env = [hour |-> <<>>, minute |-> <<>>]
    /\ runHour = ScheduleHour(env.hour)
    /\ runMinute = ScheduleMinute(env.minute)
    /\ startTime = DefaultRunHour * TicksPerHour
    /\ now = startTime
    /\ cycleStart = startTime
    /\ next = 0
    /\ cycle = 1
    /\ forecast = <<>>
    /\ fetchErr = "nil"
    /\ report = <<>>
    /\ analysis = <<>>
    /\ prompt = <<>>
    /\ summary = <<>>
    /\ llmErr = "nil"
    /\ calls = <<>>
    /\ result = "none"
    /\ payload \in WindPayloads
    /\ rain = NoRain

\* Fetch, line 96: return payload.Daily.toForecastDays().
NormalizeWind ==
    /\ pc = "fetch"
    /\ payload.kind = "wind"
    /\ LET r == toForecastDays(payload.daily)
       IN  /\ forecast' = r.forecast
           /\ fetchErr' = r.err
           /\ calls' = Append(calls, Call("fetch", <<>>, r.err))
    /\ pc' = "report"
    /\ UNCHANGED <<cancelledAt, cfg, variant, env, payload, rain, runHour, runMinute,
                   now, next, startTime, cycleStart, cycle, report, analysis,
                   prompt, summary, llmErr, result>>

NextWind == NormalizeWind

SpecWind == InitWind /\ [][NextWind]_vars

\* A date string that time.Parse("2006-01-02", ...) rejects.
Malformed(s) == ~ParseDate(s).ok

\* C15: toForecastDays returns an error and no records when there is no date,
\* when a metric sequence is not as long as the date sequence, or when some
\* date string is malformed (also after dates that parsed); otherwise it
\* returns one record per date, in input order, the i-th record with the
\* i-th value of each metric.
C15_WindAllOrNothing ==
    pc = "report" /\ payload.kind = "wind" =>
        LET d   == payload.daily
            bad == \/ Len(d.Time) = 0
                   \/ Len(d.WindSpeedMax) # Len(d.Time)
                   \/ Len(d.WindGustMax) # Len(d.Time)
                   \/ Len(d.WindDirMean) # Len(d.Time)
                   \/ \E i \in 1..Len(d.Time) : Malformed(d.Time[i])
        IN  /\ bad => fetchErr # "nil" /\ forecast = <<>>
            /\ ~bad => /\ fetchErr = "nil"
                       /\ Len(forecast) = Len(d.Time)
                       /\ \A i \in 1..Len(d.Time) :
                             /\ forecast[i].Date = <<d.Time[i].y, d.Time[i].m, d.Time[i].d>>
                             /\ forecast[i].WindSpeedMax = d.WindSpeedMax[i]
                             /\ forecast[i].WindGustMax = d.WindGustMax[i]
                             /\ forecast[i].WindDirMean = d.WindDirMean[i]

\* A first date that parses, a second that does not: an error, no record.
C15_Witness ==
    /\ pc = "report"
    /\ payload.kind = "wind"
    /\ payload.daily.Time = <<Day1, BadDay>>
    /\ Len(payload.daily.WindSpeedMax) = 2
    /\ Len(payload.daily.WindGustMax) = 2
    /\ Len(payload.daily.WindDirMean) = 2
    /\ fetchErr = "parse date"
    /\ forecast = <<>>

\* ================================================ the rain normalizer alone
\* An hourly time string "YYYY-MM-DDTHH:MM", given as its five numbers.
HourStr(y, m, d, hh, mm) == [y |-> y, m |-> m, d |-> d, hh |-> hh, mm |-> mm]

\* time.Parse("2006-01-02T15:04", s): fails on a field out of range.
ParseHour(s) ==
    IF ParseDate(DateStr(s.y, s.m, s.d)).ok /\ s.hh \in 0..23 /\ s.mm \in 0..59
    THEN [ok |-> TRUE, date |-> <<s.y, s.m, s.d>>, hour |-> s.hh]
    ELSE [ok |-> FALSE, date |-> <<0, 0, 0>>, hour |-> 0]

RainDaily(T, S, P) == [Time |-> T, PrecipSum |-> S, PrecipProb |-> P]

RainHourly(T, P, R) == [Time |-> T, PrecipProb |-> P, Precip |-> R]

\* What toRainForecasts comes to: the forecasts, an error, or the run-time
\* panic of an index out of range, which nothing recovers.
RainOK(out) == [outcome |-> "ok", forecasts |-> out, err |-> "nil"]

RainError(e) == [outcome |-> "error", forecasts |-> <<>>, err |-> e]

RainPanic == [outcome |-> "panic", forecasts |-> <<>>, err |-> "index out of range"]

\* A variant of inAfternoon whose window starts at 10.
inAfternoonFromTen(hour) == hour >= 10 /\ hour <= 18

\* toRainForecasts, lines 208 and 213: the two windows.
inMorning(hour) == hour >= 6 /\ hour <= 10

inAfternoon(hour) == hour >= 15 /\ hour <= 18

\* Lines 209, 210 and 214 read the hourly arrays at the index of the time
\* string, whatever the length of the arrays.
sampleOutOfRange(h, j, hour) ==
    \/ inMorning(hour) /\ (j > Len(h.PrecipProb) \/ j > Len(h.Precip))
    \/ inAfternoon(hour) /\ j > Len(h.PrecipProb)

\* Lines 207-215: the two tests, one after the other, on one sample.
addSample(h, j, hour, rf) ==
    LET am == IF inMorning(hour)
              THEN [rf EXCEPT !.MorningRainProb = Append(@, h.PrecipProb[j]),
                              !.MorningRainMM = Append(@, h.Precip[j])]
              ELSE rf
    IN  IF inAfternoon(hour)
        THEN [am EXCEPT !.AfternoonProb = Append(@, h.PrecipProb[j])]
        ELSE am

\* A variant of rainHourlyFrom that compares the day of the month only.
RECURSIVE rainHourlyFromDayOnly(_, _, _, _)
rainHourlyFromDayOnly(h, date, j, rf) ==
    IF j > Len(h.Time) THEN [panic |-> FALSE, rf |-> rf]
    ELSE LET t == ParseHour(h.Time[j])
         IN  IF ~t.ok \/ t.date[3] # date[3] THEN rainHourlyFromDayOnly(h, date, j + 1, rf)
             ELSE IF sampleOutOfRange(h, j, t.hour) THEN [panic |-> TRUE, rf |-> rf]
             ELSE rainHourlyFromDayOnly(h, date, j + 1, addSample(h, j, t.hour, rf))

\* toRainForecasts, lines 199-217: the hourly samples of one day; a time
\* string that does not parse, or of another date, is passed over.
RECURSIVE rainHourlyFrom(_, _, _, _)
rainHourlyFrom(h, date, j, rf) ==
    IF j > Len(h.Time) THEN [panic |-> FALSE, rf |-> rf]
    ELSE LET t == ParseHour(h.Time[j])
         IN  IF ~t.ok \/ t.date # date THEN rainHourlyFrom(h, date, j + 1, rf)
             ELSE IF sampleOutOfRange(h, j, t.hour) THEN [panic |-> TRUE, rf |-> rf]
             ELSE rainHourlyFrom(h, date, j + 1, addSample(h, j, t.hour, rf))

\* toRainForecasts, lines 187-220: one day after the other.  The daily
\* metrics are read at the index of the date, whatever their length.
RECURSIVE toRainForecastsFrom(_, _, _)
toRainForecastsFrom(r, i, out) ==
    IF i > Len(r.Daily.Time) THEN RainOK(out)
    ELSE LET p == ParseDate(r.Daily.Time[i])
         IN  IF ~p.ok THEN RainError("parse date")
             ELSE IF i > Len(r.Daily.PrecipProb) \/ i > Len(r.Daily.PrecipSum) THEN RainPanic
             ELSE LET h == rainHourlyFrom(r.Hourly, p.date, 1,
                               [Date            |-> p.date,
                                PrecipProb      |-> r.Daily.PrecipProb[i],
                                PrecipMM        |-> r.Daily.PrecipSum[i],
                                MorningRainProb |-> <<>>,
                                MorningRainMM   |-> <<>>,
                                AfternoonProb   |-> <<>>])
                  IN  IF h.panic THEN RainPanic
                      ELSE toRainForecastsFrom(r, i + 1, Append(out, h.rf))

\* rainResponse.toRainForecasts
toRainForecasts(r) ==
    IF Len(r.Daily.Time) = 0 THEN RainError("no daily rain data")
    ELSE toRainForecastsFrom(r, 1, <<>>)

\* Hourly time strings: the 29th at hours around both windows, other dates
\* with an hour inside the morning window, and one that does not parse.
MaxHours == 2

HourStamps ==
    { HourStr(2026, 1, 29, 5, 59), HourStr(2026, 1, 29, 6, 0),
      HourStr(2026, 1, 29, 7, 15), HourStr(2026, 1, 29, 10, 59),
      HourStr(2026, 1, 29, 11, 0), HourStr(2026, 1, 29, 12, 0),
      HourStr(2026, 1, 29, 14, 59), HourStr(2026, 1, 29, 15, 0),
      HourStr(2026, 1, 29, 16, 0), HourStr(2026, 1, 29, 18, 59),
      HourStr(2026, 1, 29, 19, 0), HourStr(2026, 1, 30, 7, 15),
      HourStr(2025, 1, 29, 7, 15), HourStr(2026, 3, 29, 16, 0),
      HourStr(2026, 1, 29, 24, 0) }

FewHourStamps ==
    { HourStr(2026, 1, 29, 7, 15), HourStr(2026, 1, 29, 12, 0),
      HourStr(2026, 1, 29, 16, 0), HourStr(2026, 1, 30, 7, 15),
      HourStr(2026, 1, 29, 24, 0) }

DailySums == <<12, 0, 35, 7>>
DailyProbs == <<80, 5, 60, 20>>
HourlyProbs == <<10, 20, 30, 40>>
HourlyPrecips == <<1, 2, 3, 4>>

\* Bodies whose parallel arrays have the same length, with every hourly time
\* string; bodies whose daily metrics have any length; and bodies whose hourly
\* metrics have any length.
AlignedRainPayload(p) ==
    \E T \in SeqsUpTo({Day1, Day2}, MaxDates), H \in SeqsUpTo(HourStamps, MaxHours) :
        p = [kind |-> "rain",
             body |-> [Daily  |-> RainDaily(T, Take(DailySums, Len(T)), Take(DailyProbs, Len(T))),
                       Hourly |-> RainHourly(H, Take(HourlyProbs, Len(H)), Take(HourlyPrecips, Len(H)))]]

DailyLengthRainPayloads ==
    { [kind |-> "rain",
       body |-> [Daily  |-> RainDaily(T, Take(DailySums, ks), Take(DailyProbs, kp)),
                 Hourly |-> RainHourly(<<HourStr(2026, 1, 29, 7, 15)>>, <<10>>, <<1>>)]] :
        T \in SeqsUpTo({Day1, BadDay}, MaxDates), ks \in 0..MaxDates, kp \in 0..MaxDates }

HourlyLengthRainPayloads ==
    { [kind |-> "rain",
       body |-> [Daily  |-> RainDaily(<<Day1>>, <<12>>, <<80>>),
                 Hourly |-> RainHourly(H, Take(HourlyProbs, hp), Take(HourlyPrecips, hr))]] :
        H \in SeqsUpTo(FewHourStamps, MaxHours), hp \in 0..MaxHours, hr \in 0..MaxHours }

MismatchedRainPayloads == DailyLengthRainPayloads \cup HourlyLengthRainPayloads

InitRain ==
    /\ pc = "fetch"
    /\ cancelledAt = "none"
    /\ cfg = SchedConfig
    /\ variant = "easterly"
    /\ env = [hour |-> <<>>, minute |-> <<>>]
    /\ runHour = ScheduleHour(env.hour)
    /\ runMinute = ScheduleMinute(env.minute)
    /\ startTime = DefaultRunHour * TicksPerHour
    /\ now = startTime
    /\ cycleStart = startTime
    /\ next = 0
    /\ cycle = 0
    /\ forecast = <<>>
    /\ fetchErr = "nil"
    /\ report = <<>>
    /\ analysis = <<>>
    /\ prompt = <<>>
    /\ summary = <<>>
    /\ llmErr = "nil"
    /\ calls = <<>>
    /\ result = "none"
    /\ AlignedRainPayload(payload) \/ payload \in MismatchedRainPayloads
    /\ rain = NoRain

\* FetchRain, line 160: return payload.toRainForecasts().
NormalizeRain ==
    /\ pc = "fetch"
    /\ payload.kind = "rain"
    /\ rain' = toRainForecasts(payload.body)
    /\ pc' = IF rain'.outcome = "panic" THEN "panicked" ELSE "normalized"
    /\ UNCHANGED <<cancelledAt, cfg, variant, env, payload, runHour, runMinute,
                   now, next, startTime, cycleStart, cycle, forecast, fetchErr,
                   report, analysis, prompt, summary, llmErr, calls, result>>

NextRain == NormalizeRain

SpecRain == InitRain /\ [][NextRain]_vars

\* toRainForecasts has run on the body.
RainRan == pc \in {"normalized", "panicked"}

\* Some array of the body is not as long as its time array.
RainMismatch ==
    LET b == payload.body
    IN  \/ Len(b.Daily.PrecipSum) # Len(b.Daily.Time)
        \/ Len(b.Daily.PrecipProb) # Len(b.Daily.Time)
        \/ Len(b.Hourly.PrecipProb) # Len(b.Hourly.Time)
        \/ Len(b.Hourly.Precip) # Len(b.Hourly.Time)

\* C16: toRainForecasts answers a length mismatch between parallel arrays
\* (daily or hourly) with an error; on every body it returns either the full
\* result, one forecast per date, or an error, and it never panics.
C16_AsStated ==
    RainRan =>
        /\ rain.outcome # "panic"
        /\ RainMismatch => rain.outcome = "error"
        /\ rain.outcome = "ok" => Len(rain.forecasts) = Len(payload.body.Daily.Time)
        /\ rain.outcome = "error" => rain.forecasts = <<>>

\* The indexes of the hourly samples of day i whose hour is in lo..hi, in the
\* order of the hourly source.
SamplesOf(i, lo, hi) ==
    LET b    == payload.body
        day  == b.Daily.Time[i]
        n    == Len(b.Hourly.Time)
        hit(j) == LET s == b.Hourly.Time[j]
                  IN  /\ ParseHour(s).ok
                      /\ s.y = day.y /\ s.m = day.m /\ s.d = day.d
                      /\ s.hh >= lo /\ s.hh <= hi
    IN  SelectSeq([j \in 1..n |-> j], hit)

\* C17: an hourly sample counts for a day only when its year, month and day
\* are that day's; it then goes to the morning sequences iff its hour is in
\* 6..10, to the afternoon sequence iff its hour is in 15..18, and to neither
\* otherwise; the samples of each sequence keep the order of the source.
C17_HourlyAttribution ==
    RainRan /\ rain.outcome = "ok" =>
        \A i \in 1..Len(rain.forecasts) :
            LET b  == payload.body
                am == SamplesOf(i, 6, 10)
                pm == SamplesOf(i, 15, 18)
                rf == rain.forecasts[i]
            IN  /\ rf.MorningRainProb = [k \in 1..Len(am) |-> b.Hourly.PrecipProb[am[k]]]
                /\ rf.MorningRainMM = [k \in 1..Len(am) |-> b.Hourly.Precip[am[k]]]
                /\ rf.AfternoonProb = [k \in 1..Len(pm) |-> b.Hourly.PrecipProb[pm[k]]]

\* A sample at 07:15 of another year, then one at 07:15 of the day: only the
\* second is in the day's morning sequences.
C17_Witness ==
    /\ RainRan
    /\ rain.outcome = "ok"
    /\ payload.body.Daily.Time = <<Day1>>
    /\ payload.body.Hourly.Time = <<HourStr(2025, 1, 29, 7, 15), HourStr(2026, 1, 29, 7, 15)>>
    /\ rain.forecasts[1].MorningRainProb = <<20>>
    /\ rain.forecasts[1].MorningRainMM = <<2>>
    /\ rain.forecasts[1].AfternoonProb = <<>>

\* ================================================= the analysis line alone
\* Forecasts of at most MaxDays days, each with a mean direction on or around
\* the thresholds of the two-point classifier, handed to the report builders
\* of agent.go.
MaxDays == 3

AnalysisDirs == {0, 5, 900, 1800, 2700}

DayWith(dir10) ==
    [Date |-> <<2026, 1, 29>>, WindSpeedMax |-> 185, WindGustMax |-> 321,
     WindDirMean |-> dir10]

InitAnalysis ==
    /\ pc = "report"
    /\ cancelledAt = "none"
    /\ cfg = SchedConfig
    /\ variant = "easterly"
    /\ env = [hour |-> <<>>, minute |-> <<>>]
    /\ runHour = ScheduleHour(env.hour)
    /\ runMinute = ScheduleMinute(env.minute)
    /\ startTime = DefaultRunHour * TicksPerHour
    /\ now = startTime
    /\ cycleStart = startTime
    /\ next = 0
    /\ cycle = 1
    /\ forecast \in SeqsUpTo({DayWith(a) : a \in AnalysisDirs}, MaxDays)
    /\ fetchErr = IF forecast = <<>> THEN "call open-meteo" ELSE "nil"
    /\ report = <<>>
    /\ analysis = <<>>
    /\ prompt = <<>>
    /\ summary = <<>>
    /\ llmErr = "nil"
    /\ calls = <<Call("fetch", <<>>, fetchErr)>>
    /\ result = "none"
    /\ payload = NoPayload
    /\ rain = NoRain

NextAnalysis == BuildReport

SpecAnalysis == InitAnalysis /\ [][NextAnalysis]_vars

\* East of the two-point policy: the normalized angle is strictly between 0
\* and 180.
PolicyEast(d10) == Mod360(d10) > 0 /\ Mod360(d10) < 10 * HalfCircle

EastDays == {i \in 1..Len(forecast) : PolicyEast(forecast[i].WindDirMean)}

\* The rows of the table that show E.
RowsShownEast == {i \in 1..Len(forecast) : report[i + 2].dir = "E"}

\* The counts and the dominant label follow the directions the table shows.
AnalysisFollowsTable ==
    pc = "summarize" /\ variant = "easterly" =>
        /\ analysis[1].east = Cardinality(RowsShownEast)
        /\ analysis[1].west = Len(forecast) - Cardinality(RowsShownEast)
        /\ analysis[1].dominant =
              IF analysis[1].east > analysis[1].west THEN "E plane"
              ELSE IF analysis[1].west > analysis[1].east THEN "W"
              ELSE "Mixed"

\* C18: the analysis line counts as East the days whose direction is East
\* under the two-point policy, as West all the other days, and names East
\* dominant iff there are more East days, West iff more West days, Mixed iff
\* as many: East with no West day when every day is East, Mixed with both
\* counts 0 for no day at all.
C18_AsStated ==
    pc = "summarize" /\ variant = "easterly" =>
        LET east == Cardinality(EastDays)
            west == Len(forecast) - east
        IN  /\ analysis[1].east = east
            /\ analysis[1].west = west
            /\ analysis[1].east + analysis[1].west = Len(forecast)
            /\ analysis[1].dominant =
                  IF east > west THEN "E plane" ELSE IF west > east THEN "W" ELSE "Mixed"

\* ------------------------------------------------------------------- C19
\* The external calls of the current cycle, by name.
Ops == [i \in 1..Len(calls) |-> calls[i].op]

\* Where Run is in a cycle fixes the calls the cycle has made so far: one
\* fetch, then one LLM call, then the sends.
C19_CallsInOrder ==
    /\ pc = "fetch" => Ops = <<>>
    /\ pc \in {"report", "summarize"} => Ops = <<"fetch">>
    /\ pc \in {"fallback", "sendTable"} => Ops = <<"fetch", "generate">>
    /\ pc = "sendSummary" => Ops = <<"fetch", "generate", "send">>
    /\ CycleOver => Ops \in { <<"fetch", "generate">>,
                              <<"fetch", "generate", "send">>,
                              <<"fetch", "generate", "send", "send">> }

\* C19: cycles never overlap and each makes its calls in the fixed order:
\* the weather provider exactly once, then the LLM exactly once, then the
\* sends; a cycle starts only at the loop top, and a cycle after the first
\* only when the one before it has made all its calls and the wait it computed
\* has elapsed.
C19_OneCycleAtATime ==
    [][/\ C19_CallsInOrder'
       /\ cycle' # cycle =>
             /\ cycle' = cycle + 1
             /\ pc = "loopTop" /\ pc' = "fetch"
             /\ calls' = <<>>
             /\ cycle > 0 => /\ Len(Ops) >= 2
                             /\ next > cycleStart
                             /\ now >= next
      ]_vars

\* The second cycle has fetched, summarized and sent its first message, after
\* a first cycle and its wait.
C19_Witness ==
    /\ cycle = 2
    /\ pc = "sendSummary"
    /\ Ops = <<"fetch", "generate", "send">>
    /\ cycleStart >= next

\* ------------------------------------------------------------------- C20
\* Run with the default schedule, called just before the trigger time.
InitFair ==
    /\ Init
    /\ env = [hour |-> <<>>, minute |-> <<>>]
    /\ startTime = DefaultRunHour * TicksPerHour + DefaultRunMinute * TicksPerMinute - 1

\* The steps of Run itself: every step but the caller's cancellation.
RunStep ==
    \/ ReadSchedule
    \/ LoopTop
    \/ FetchForecast
    \/ BuildReport
    \/ Summarize
    \/ SendFallback
    \/ SendTable
    \/ SendSummary
    \/ ComputeSleep
    \/ WaitCancelled
    \/ WaitTimer

\* Run keeps running: each external call returns and the timer fires.
SpecFair == InitFair /\ [][Next]_vars /\ WF_vars(RunStep)

\* C20: once ctx is cancelled, at the loop top, during the wait or while a
\* call of a cycle is in flight, Run eventually returns the cancellation
\* outcome, and it starts no cycle after the one in progress.
C20_CancelEndsRun ==
    /\ Cancelled ~> (pc = "returned" /\ result = "context canceled")
    /\ [][Cancelled => cycle' = cycle]_vars

\* Cancelled while the fetch of the first cycle was in flight, Run has
\* finished that cycle and returned the cancellation outcome.
C20_Witness ==
    /\ pc = "returned"
    /\ cancelledAt = "fetch"
    /\ cycle = 1
    /\ LLMCalled
    /\ result = "context canceled"

\* ------------------------------------------------------------------- C21
\* Run is inside the loop body, between the loop-top checks and the wait.
InCycle ==
    pc \in {"fetch", "report", "summarize", "fallback", "sendTable", "sendSummary", "sleep"}

\* C21: with both dependencies present and no cancellation Run never
\* returns; every cycle reaches the idle wait, and every idle wait is followed
\* by the fetch of the next cycle (for every cycle the model counts, up to
\* MaxCycles), unless ctx is cancelled meanwhile.
C21_LoopNeverStops ==
    /\ [](cfg.Weather /\ cfg.Ollama /\ ~Cancelled => pc # "returned")
    /\ InCycle ~> pc = "wait"
    /\ \A c \in 1..(MaxCycles - 1) :
          (pc = "wait" /\ cycle = c /\ ~Cancelled)
              ~> ((pc = "fetch" /\ cycle = c + 1) \/ Cancelled)

\* The second cycle is at its fetch and ctx was never cancelled.
C21_Witness ==
    /\ cycle = 2
    /\ pc = "fetch"
    /\ ~Cancelled
    /\ calls = <<>>
    /\ now >= next

\* ======================================== Run under every kind of schedule
\* WIND_CHECK_HOUR and WIND_CHECK_MINUTE absent, not a number, negative, too
\* large, and valid at both ends of the range.
ScheduleEnvHours ==
    { <<>>, <<"x">>, <<"9", "h">>, <<"-", "1">>, <<"2", "4">>, <<"0">>, <<"2", "3">>, <<"+", "7">> }

ScheduleEnvMinutes ==
    { <<>>, <<"x">>, <<"-", "5">>, <<"6", "0">>, <<"0">>, <<"5", "9">> }

ScheduleConfig ==
    New([LocationName |-> "London Heathrow", ForecastDays |-> 0, Weather |-> TRUE,
         Ollama |-> TRUE, TelegramToken |-> "token", TelegramChatID |-> "42"])

InitSchedule ==
    /\ pc = "start"
    /\ cancelledAt = "none"
    /\ cfg = ScheduleConfig
    /\ variant = "easterly"
    /\ env \in [hour : ScheduleEnvHours, minute : ScheduleEnvMinutes]
    /\ runHour = DefaultRunHour
    /\ runMinute = DefaultRunMinute
    /\ startTime = DefaultRunHour * TicksPerHour + DefaultRunMinute * TicksPerMinute - 1
    /\ now = startTime
    /\ next = 0
    /\ cycleStart = startTime
    /\ cycle = 0
    /\ forecast = <<>>
    /\ fetchErr = "nil"
    /\ report = <<>>
    /\ analysis = <<>>
    /\ prompt = <<>>
    /\ summary = <<>>
    /\ llmErr = "nil"
    /\ calls = <<>>
    /\ result = "none"
    /\ payload = NoPayload
    /\ rain = NoRain

SpecSchedule == InitSchedule /\ [][Next]_vars

\* The number a configured value stands for when it is a whole number of
\* 0..top, and the fallback otherwise.
Configured(s, top, fallback) ==
    LET n == Atoi(s)
    IN  IF n.ok /\ n.v \in 0..top THEN n.v ELSE fallback

\* C22: the schedule is read once, before the first cycle: from then on
\* runHour is the configured hour when that is a number of 0..23 and 10
\* otherwise (absent, not a number, negative, 24 or more), runMinute the
\* configured minute when that is a number of 0..59 and 0 otherwise, and no
\* later step changes either.
C22_ScheduleReadOnce ==
    [][/\ pc = "start" /\ pc' # "start" =>
              /\ runHour' = Configured(env.hour, 23, 10)
              /\ runMinute' = Configured(env.minute, 59, 0)
       /\ pc' # "start" => runHour' \in 0..23 /\ runMinute' \in 0..59
       /\ pc # "start" => runHour' = runHour /\ runMinute' = runMinute
       /\ env' = env
      ]_vars

\* An hour of 24 and a negative minute fell back to 10:00, and the schedule
\* is still that in the wait of the second cycle, after a failed fetch.
C22_Witness ==
    /\ env.hour = <<"2", "4">>
    /\ env.minute = <<"-", "5">>
    /\ runHour = 10
    /\ runMinute = 0
    /\ cycle = 2
    /\ pc = "wait"
    /\ FetchFailed

\* ------------------------------------------------------------------- C23
\* Some daily date of the body does not parse; some hourly time string does
\* not.
BadDailyDate ==
    \E i \in 1..Len(payload.body.Daily.Time) : Malformed(payload.body.Daily.Time[i])

BadHourlyStamp ==
    \E j \in 1..Len(payload.body.Hourly.Time) : ~ParseHour(payload.body.Hourly.Time[j]).ok

\* The samples of every returned day are the ones the hourly source gives it,
\* the time strings that do not parse left out.
OthersAttributed ==
    \A i \in 1..Len(rain.forecasts) :
        /\ Len(rain.forecasts[i].MorningRainProb) = Len(SamplesOf(i, 6, 10))
        /\ Len(rain.forecasts[i].AfternoonProb) = Len(SamplesOf(i, 15, 18))
        /\ \A k \in 1..Len(SamplesOf(i, 6, 10)) :
              rain.forecasts[i].MorningRainProb[k]
                  = payload.body.Hourly.PrecipProb[SamplesOf(i, 6, 10)[k]]
        /\ \A k \in 1..Len(SamplesOf(i, 15, 18)) :
              rain.forecasts[i].AfternoonProb[k]
                  = payload.body.Hourly.PrecipProb[SamplesOf(i, 15, 18)[k]]

\* C23: an hourly time string that does not parse is passed over: the call
\* still returns its result, one forecast per date, with the other samples
\* attributed as they are without it; a daily date that does not parse makes
\* the call return an error and no records, also after days that were built.
C23_AsStated ==
    RainRan =>
        /\ BadDailyDate => rain.outcome = "error" /\ rain.forecasts = <<>>
        /\ BadHourlyStamp /\ ~BadDailyDate /\ Len(payload.body.Daily.Time) > 0 =>
              /\ rain.outcome = "ok"
              /\ Len(rain.forecasts) = Len(payload.body.Daily.Time)
              /\ OthersAttributed

\* The same on the bodies whose parallel arrays have the lengths of their
\* time arrays.
ParseFailuresOnAlignedBodies == ~RainMismatch => C23_AsStated

\* ------------------------------------------------------------------- C24
\* C24: when ctx is cancelled while a cycle fetches or summarizes and a chat
\* destination is configured, the cycle still attempts at least one send (the
\* fallback message when the LLM call fails) before Run returns, and what Run
\* returns is the cancellation outcome.
C24_CancelledCycleStillNotifies ==
    /\ cancelledAt \in {"fetch", "summarize"} /\ cfg.TelegramToken # "" /\ cfg.TelegramChatID # ""
          /\ (CycleOver \/ pc = "returned")
          => /\ Len(Sends) >= 1
             /\ LLMFailed => Len(Sends) = 1
    /\ cancelledAt \in {"fetch", "summarize"} /\ pc = "returned" => result = "context canceled"

\* Cancelled while summarizing, the LLM call failed; the fallback was sent and
\* Run returned the cancellation outcome.
C24_Witness ==
    /\ pc = "returned"
    /\ cancelledAt = "summarize"
    /\ LLMFailed
    /\ Len(Sends) = 1
    /\ Sends[1].text = tableMsg(variant, report, analysis)
    /\ result = "context canceled"

\* ------------------------------------------------------------------- C25
\* The rows of the table of agent.go that carry the east marker, and the rows
\* that show W.
RowsMarkedEast == {i \in 1..Len(forecast) : report[i + 2].east = " plane"}

RowsShownWest == {i \in 1..Len(forecast) : report[i + 2].dir = "W"}

\* C25: in the table and analysis line of agent.go, for every angle, a row
\* shows E exactly when it carries the east marker, every other row shows W,
\* the number of marked rows is the East count of the analysis line and the
\* number of rows that show W is its West count.
C25_TableAndAnalysisAgree ==
    pc = "summarize" /\ variant = "easterly" =>
        /\ \A i \in 1..Len(forecast) :
              /\ report[i + 2].dir \in {"E", "W"}
              /\ report[i + 2].dir = "E" <=> report[i + 2].east = " plane"
        /\ analysis[1].east = Cardinality(RowsMarkedEast)
        /\ analysis[1].west = Cardinality(RowsShownWest)

\* The day's angle is 0.5 degrees: the row shows W without the marker and the
\* analysis line counts one West day.
C25_Witness ==
    /\ pc = "summarize"
    /\ variant = "easterly"
    /\ DayAngle = 5
    /\ ShownDir = "W"
    /\ report[3].east = "   "
    /\ analysis[1].east = 0
    /\ analysis[1].west = 1

\* ------------------------------------------------------------------- C26
\* C26: in every forecast toRainForecasts returns, the morning probabilities
\* and the morning amounts are as many, the k-th of each comes from the same
\* hourly sample, and no hourly sample is in both the morning and the
\* afternoon sequence of the day.  (The hourly values of the bodies differ
\* from sample to sample, so a value names its sample.)
C26_MorningSequencesParallel ==
    RainRan /\ rain.outcome = "ok" =>
        \A i \in 1..Len(rain.forecasts) :
            LET rf == rain.forecasts[i]
                h  == payload.body.Hourly
            IN  /\ Len(rf.MorningRainProb) = Len(rf.MorningRainMM)
                /\ \A k \in 1..Len(rf.MorningRainProb) :
                      \E j \in 1..Len(h.Time) :
                          /\ j <= Len(h.PrecipProb) /\ j <= Len(h.Precip)
                          /\ rf.MorningRainProb[k] = h.PrecipProb[j]
                          /\ rf.MorningRainMM[k] = h.Precip[j]
                /\ \A k \in 1..Len(rf.MorningRainProb), l \in 1..Len(rf.AfternoonProb) :
                      rf.MorningRainProb[k] # rf.AfternoonProb[l]

\* A sample at 10:59 and one at 15:00 of the day: the first is in both
\* morning sequences, the second in the afternoon sequence only.
C26_Witness ==
    /\ RainRan
    /\ rain.outcome = "ok"
    /\ payload.body.Daily.Time = <<Day1>>
    /\ payload.body.Hourly.Time = <<HourStr(2026, 1, 29, 10, 59), HourStr(2026, 1, 29, 15, 0)>>
    /\ rain.forecasts[1].MorningRainProb = <<10>>
    /\ rain.forecasts[1].MorningRainMM = <<1>>
    /\ rain.forecasts[1].AfternoonProb = <<20>>

=============================================================================
